---- MODULE Spec2Model ----
(***************************************************************************)
(* Model of the cdb_rs constant-database Writer and Reader                 *)
(* (src/storage/cdb/cdb_rs/src/cdb/mod.rs).                                *)
(*                                                                         *)
(* The file is a sequence of bytes; offset o of the file is element o+1    *)
(* of the sequence.  All integers written to the file go through the       *)
(* little-endian u32 encoding and are read back through its decoding.      *)
(***************************************************************************)
EXTENDS Integers, Sequences, FiniteSets, TLC

\* ---------------------------------------------------------------- constants
STARTING_HASH == 5381
MAIN_TABLE_SIZE == 256
MAIN_TABLE_SIZE_BYTES == 2048
END_TABLE_ENTRY_SIZE == 8
INDEX_ENTRY_SIZE == 8

\* A u32 is the record [hi, lo] of its two 16-bit halves, so that the full
\* 32-bit range and its wrap-around are exact.
HALF == 2 ^ 16

\* ------------------------------------------------------------------- bounds
\* at most MaxPuts calls of Writer::put per Writer
MaxPuts == 2
\* the longest destination buffer handed to Reader::get
MaxBuf == 3

\* the longest byte string hashed on its own
MaxHashLen == 4

\* the number of puts that may fail
MaxPutFails == 1

\* the pool: the largest nmax given to Pool::new, the largest size given to
\* prealloc, and the number of takes after which no further take is made
MaxNmax == 2
MaxPrealloc == 3
MaxTakes == 4

\* the keys offered to put and get; all but the first fall in bucket 193
\*   <<>>      the zero-length key, hash 5381 (bucket 5)
\*   <<4,0>>   and <<7,35>>: two keys of equal 32-bit hash 5859777
\*   <<88,92>> hash 5862849: another hash, the same start slot in a table
\*             of 4 or 6 slots
\*   LongKey   hash 3104372929: the fold has wrapped and the top bit is
\*             set; another start slot
LongKey == << 1, 1, 1, 1, 1, 7, 2 >>
Keys == { <<>>, <<4, 0>>, <<7, 35>>, <<88, 92>>, LongKey }
\* the values offered to put (a zero-length value included)
Values == { <<>>, <<8, 9>> }
\* the destination buffers offered to get: one shorter than the longest
\* value and one longer, holding bytes no value holds
Bufs == { [i \in 1..n |-> 170 + i] : n \in {1, MaxBuf} }

\* ------------------------------------------------------------------ helpers
Min(a, b) == IF a < b THEN a ELSE b
Max(a, b) == IF a < b THEN b ELSE a

RECURSIVE Xor(_, _)
\* bitwise exclusive or of two naturals (the ^ operator on u32)
Xor(a, b) ==
    IF a = 0 THEN b
    ELSE IF b = 0 THEN a
    ELSE (((a % 2) + (b % 2)) % 2) + 2 * Xor(a \div 2, b \div 2)

\* `n as u32` for a usize n (below 2^31 in every state of this model)
U32Of(n) == [hi |-> (n \div HALF) % HALF, lo |-> n % HALF]

\* `x as usize` for a u32 x
ToUsize(x) == x.hi * HALF + x.lo

Zero32 == U32Of(0)

\* BufMut::put_u32_le: the four bytes of x, least significant first
put_u32_le(x) ==
    << x.lo % 256, x.lo \div 256, x.hi % 256, x.hi \div 256 >>

\* Buf::get_u32_le on the 4 bytes of data starting at offset off
get_u32_le(data, off) ==
    [hi |-> data[off + 3] + 256 * data[off + 4],
     lo |-> data[off + 1] + 256 * data[off + 2]]

\* mutant of wrapping_shl5: a shift that loses bits gives u32::MAX
wrapping_shl5_Saturating(h) ==
    IF h.hi * 32 + ((h.lo * 32) \div HALF) >= HALF
    THEN [hi |-> HALF - 1, lo |-> HALF - 1]
    ELSE [hi |-> h.hi * 32 + ((h.lo * 32) \div HALF), lo |-> (h.lo * 32) % HALF]

\* u32::wrapping_shl(5)
wrapping_shl5(h) ==
    [hi |-> (h.hi * 32 + ((h.lo * 32) \div HALF)) % HALF,
     lo |-> (h.lo * 32) % HALF]

\* u32::wrapping_add
wrapping_add(a, b) ==
    [hi |-> (a.hi + b.hi + ((a.lo + b.lo) \div HALF)) % HALF,
     lo |-> (a.lo + b.lo) % HALF]

\* mutant of xor_byte: the byte is added, as in the additive djb2
xor_byte_Add(h, b) == wrapping_add(h, [hi |-> 0, lo |-> b])

\* h ^ (b as u32) for a byte b
xor_byte(h, b) == [hi |-> h.hi, lo |-> Xor(h.lo, b)]

\* ----------------------------------------------------------------- CDBHash
RECURSIVE HashFold(_, _, _)
\* the loop of CDBHash::new from byte i on
HashFold(h, bytes, i) ==
    IF i > Len(bytes) THEN h
    ELSE HashFold(xor_byte(wrapping_add(wrapping_shl5(h), h), bytes[i]),
                  bytes, i + 1)

\* CDBHash::new
CDBHashNew(bytes) == HashFold(U32Of(STARTING_HASH), bytes, 1)

\* mutant of table: the bucket is taken from the second byte of the hash
table_SecondByte(h) == (h.lo \div 256) % MAIN_TABLE_SIZE

\* CDBHash::table: self.0 as usize % MAIN_TABLE_SIZE (256 divides 65536)
table(h) == h.lo % MAIN_TABLE_SIZE

\* CDBHash::slot: (self.0 as usize >> 8) % num_ents
slot(h, num_ents) == (h.hi * 256 + (h.lo \div 256)) % num_ents

\* IndexEntry::default()
IndexEntryDefault == [hash |-> Zero32, ptr |-> Zero32]

\* -------------------------------------------------------------------- state
VARIABLES
    file,     \* the bytes of the file the Writer writes
    pos,      \* the file's cursor
    index,    \* Writer.index: 256 lists of IndexEntry
    wstate,   \* "none" (no Writer yet), "open", "dropped"
    puts,     \* history: the successful puts, [k, v, off] in call order,
              \*          off the file offset the record was written at
    nfinal,   \* history: how many times finalize has run
    rkey,     \* the key of the last Reader::get
    rdest0,   \* the destination buffer handed to the last get
    rdest,    \* the destination buffer after the last get
    rres,     \* the result of the last get
    damage,   \* what was done to the finalised bytes before they were read
    werr,     \* the error finalize returned to drop, "none" without one
    nfail,    \* the number of puts that returned Err
    calls,    \* the get calls in progress, one per concurrent caller
    hkey,     \* the bytes handed to CDBHash::new
    hval,     \* the hash CDBHash::new returned for hkey
    freeq,    \* Pool.freeq
    nused,    \* Pool.nused
    nmax,     \* Pool.nmax
    obj_size, \* Pool.obj_size
    taken,    \* the buffers taken from the pool and not yet put back
    ntake,    \* the number of takes that returned a buffer
    nput,     \* the number of puts
    nalloc,   \* the number of buffers allocate_one has made
    plast     \* the last pool operation and what it returned

wvars == << file, pos, index, wstate, puts, nfinal >>
rvars == << rkey, rdest0, rdest, rres >>
pvars == << freeq, nused, nmax, obj_size, taken, ntake, nput, nalloc, plast >>
ovars == << damage, werr, nfail, calls, hkey, hval, pvars >>

vars == << wvars, rvars, ovars >>

\* ------------------------------------------------------------------ file IO
\* n zero bytes
Zeros(n) == SubSeq([i \in 1..n |-> 0], 1, n)

\* Write::write_all of bytes at offset p of f (a hole past EOF reads as 0)
WriteAt(f, p, bytes) ==
    IF p >= Len(f)
    THEN f \o Zeros(p - Len(f)) \o bytes
    ELSE SubSeq(f, 1, p) \o bytes \o SubSeq(f, p + Len(bytes) + 1, Len(f))

\* Writer::seek: the new position as u32
SeekU32(n) == U32Of(n)


\* ------------------------------------------------------------------- Writer
\* Writer::new: seek to 0, one write call of the zeroed primary table, of
\* which the file accepts n bytes (the count write returns is dropped), 256
\* index lists of one default entry each
\* (vec![vec![IndexEntry::default()]; 256])
WriterNewAccepting(n) ==
    /\ wstate = "none"
    /\ file' = WriteAt(file, 0, Zeros(n))
    /\ pos' = n
    /\ index' = [b \in 0..(MAIN_TABLE_SIZE - 1) |-> << IndexEntryDefault >>]
    /\ wstate' = "open"
    /\ UNCHANGED << puts, nfinal, rvars, ovars >>

\* Writer::new over a regular file (the tests' NamedTempFile): its write
\* accepts the 2048 bytes whole
WriterNew == WriterNewAccepting(MAIN_TABLE_SIZE_BYTES)

\* mutant of RecordBytes: the value is written before the key
RecordBytes_ValueFirst(key, value) ==
    put_u32_le(U32Of(Len(key))) \o put_u32_le(U32Of(Len(value))) \o value \o key

\* the packed record put writes
RecordBytes(key, value) ==
    put_u32_le(U32Of(Len(key))) \o put_u32_le(U32Of(Len(value))) \o key \o value

\* Writer::put
Put(key, value) ==
    /\ wstate = "open"
    /\ Len(puts) < MaxPuts
    /\ LET ptr  == SeekU32(pos)
           buf  == RecordBytes(key, value)
           hash == CDBHashNew(key)
       IN /\ file' = WriteAt(file, pos, buf)
          /\ pos' = pos + Len(buf)
          /\ index' = [index EXCEPT ![table(hash)] =
                           Append(@, [hash |-> hash, ptr |-> ptr])]
          /\ puts' = Append(puts, [k |-> key, v |-> value, off |-> pos,
                                    ptr |-> ptr])
    /\ UNCHANGED << wstate, nfinal, rvars, ovars >>

\* mutant of Probe: the entry goes to its start slot, free or not
Probe_NoProbe(ordered, idx_ent, start, length, i) ==
    [ordered EXCEPT ![start + 1] = idx_ent]

\* mutant of Probe: the probe path begins one slot after the start slot
Probe_Skip(ordered, idx_ent, start, length, i) ==
    [ordered EXCEPT ![((start + 1) % length) + 1] = idx_ent]

\* mutant of Probe: one probe only, a taken start slot loses the entry
Probe_OneProbe(ordered, idx_ent, start, length, i) ==
    IF ordered[start + 1].ptr = Zero32
    THEN [ordered EXCEPT ![start + 1] = idx_ent]
    ELSE ordered

RECURSIVE Probe(_, _, _, _, _)
\* the inner loop of finalize: the first free slot j on the probe path of
\* idx_ent gets it; the loop running out places nothing
Probe(ordered, idx_ent, start, length, i) ==
    IF i >= length THEN ordered
    ELSE LET j == (i + start) % length
         IN IF ordered[j + 1].ptr = Zero32
            THEN [ordered EXCEPT ![j + 1] = idx_ent]
            ELSE Probe(ordered, idx_ent, start, length, i + 1)

RECURSIVE Place_Reversed(_, _, _, _)
\* mutant of Place: the list is placed last entry first
Place_Reversed(ordered, tbl, length, n) ==
    IF n > Len(tbl) THEN ordered
    ELSE Place_Reversed(Probe(ordered, tbl[Len(tbl) + 1 - n],
                              slot(tbl[Len(tbl) + 1 - n].hash, length), length, 0),
                        tbl, length, n + 1)

RECURSIVE Place(_, _, _, _)
\* the loop over a bucket's list in finalize, in insertion order
Place(ordered, tbl, length, n) ==
    IF n > Len(tbl) THEN ordered
    ELSE Place(Probe(ordered, tbl[n], slot(tbl[n].hash, length), length, 0),
               tbl, length, n + 1)

\* (tbl.len() << 1) as u32, as the usize the loops use
TableLength(tbl) == ToUsize(U32Of(Len(tbl) * 2))

\* the slot array finalize builds for one bucket list
Ordered(tbl) ==
    Place([i \in 1..TableLength(tbl) |-> IndexEntryDefault], tbl,
          TableLength(tbl), 1)

RECURSIVE SlotBytes(_, _)
\* the bytes of a slot array: (hash, ptr) per slot, in index order
SlotBytes(ordered, i) ==
    IF i > Len(ordered) THEN << >>
    ELSE put_u32_le(ordered[i].hash) \o put_u32_le(ordered[i].ptr)
             \o SlotBytes(ordered, i + 1)

\* mutant of FinalizeBucket: the bucket's ptr is taken one slot too far
FinalizeBucket_PtrAfter(tbl, f) ==
    << << [ptr |-> SeekU32(Len(f) + END_TABLE_ENTRY_SIZE),
           num_ents |-> U32Of(TableLength(tbl))] >>,
       f \o SlotBytes(Ordered(tbl), 1) >>

\* one iteration of the loop over the 256 lists in finalize: the bucket's
\* table is written at EOF and its (ptr, num_ents) is pushed to buckets
FinalizeBucket(tbl, f) ==
    << << [ptr |-> SeekU32(Len(f)), num_ents |-> U32Of(TableLength(tbl))] >>,
       WriteAt(f, Len(f), SlotBytes(Ordered(tbl), 1)) >>

RECURSIVE FinalizeTables(_, _, _, _)
\* the loop over the lists lo..hi-1 in finalize, in bucket order, from file
\* f on (split in halves to keep the evaluation shallow).  The result is the
\* pair << buckets, file >>.
FinalizeTables(idx, f, lo, hi) ==
    IF hi - lo = 1 THEN FinalizeBucket(idx[lo], f)
    ELSE LET mid == (lo + hi) \div 2
             r1  == FinalizeTables(idx, f, lo, mid)
             r2  == FinalizeTables(idx, r1[2], mid, hi)
         IN << r1[1] \o r2[1], r2[2] >>

RECURSIVE BucketBytes(_, _, _)
\* the bytes of the primary table: (ptr, num_ents) of buckets lo..hi-1
BucketBytes(buckets, lo, hi) ==
    IF hi - lo = 1
    THEN put_u32_le(buckets[lo + 1].ptr) \o put_u32_le(buckets[lo + 1].num_ents)
    ELSE BucketBytes(buckets, lo, (lo + hi) \div 2)
             \o BucketBytes(buckets, (lo + hi) \div 2, hi)

\* Writer::finalize: the file it leaves
Finalize(idx, f) ==
    LET r == FinalizeTables(idx, f, 0, MAIN_TABLE_SIZE)
    IN WriteAt(r[2], 0, BucketBytes(r[1], 0, Len(r[1])))

\* the position finalize leaves the cursor at: seek(SeekFrom::Start(0))
FinalizePos == 0

\* mutant of Drop: the Writer is released without finalize
Drop_NoFinalize ==
    /\ wstate = "open"
    /\ wstate' = "dropped"
    /\ UNCHANGED << file, pos, index, puts, nfinal, rvars, ovars >>

\* impl Drop for Writer: the Writer leaves its scope and finalize runs
Drop ==
    /\ wstate = "open"
    /\ file' = Finalize(index, file)
    /\ pos' = FinalizePos
    /\ nfinal' = nfinal + 1
    /\ wstate' = "dropped"
    /\ UNCHANGED << index, puts, rvars, ovars >>

\* ------------------------------------------------------------------- Reader
\* CDBData::load_bytes_from_file: read_to_end from the file's cursor
LoadBytes(f, p) == SubSeq(f, p + 1, Len(f))

Found(n) == [kind |-> "Found", n |-> n]
NotFound == [kind |-> "NotFound", n |-> 0]
\* an out-of-range slice, a failed assert! or an explicit panic!
Panic == [kind |-> "Panic", n |-> 0]

\* data[a..b] is in range
InRange(data, a, b) == a <= b /\ b <= Len(data)

\* Reader::bucket_at: the primary-table entry idx, or a panic
bucket_at(data, idx) ==
    IF ~(idx < MAIN_TABLE_SIZE) \/ ~InRange(data, 8 * idx, 8 * idx + 8)
    THEN [ok |-> FALSE, ptr |-> Zero32, num_ents |-> Zero32]
    ELSE [ok |-> TRUE, ptr |-> get_u32_le(data, 8 * idx),
          num_ents |-> get_u32_le(data, 8 * idx + 4)]

\* Bucket::entry_n_pos
entry_n_pos(bucket, n) == ToUsize(bucket.ptr) + n * END_TABLE_ENTRY_SIZE

\* Reader::index_entry_at: the slot at absolute position p, or a panic
index_entry_at(data, p) ==
    IF p < MAIN_TABLE_SIZE_BYTES \/ ~InRange(data, p, p + 8)
    THEN [ok |-> FALSE, hash |-> Zero32, ptr |-> Zero32]
    ELSE [ok |-> TRUE, hash |-> get_u32_le(data, p),
          ptr |-> get_u32_le(data, p + 4)]

\* Reader::get_kv_ref: the key and value of the record at ptr, or a panic
get_kv_ref(data, ie_ptr) ==
    LET ptr == ToUsize(ie_ptr) IN
    IF ~InRange(data, ptr, ptr + INDEX_ENTRY_SIZE)
    THEN [ok |-> FALSE, k |-> << >>, v |-> << >>]
    ELSE LET ksize  == ToUsize(get_u32_le(data, ptr))
             vsize  == ToUsize(get_u32_le(data, ptr + 4))
             kstart == ptr + INDEX_ENTRY_SIZE
             vstart == kstart + ksize
         IN IF ~InRange(data, kstart, kstart + ksize)
               \/ ~InRange(data, vstart, vstart + vsize)
            THEN [ok |-> FALSE, k |-> << >>, v |-> << >>]
            ELSE [ok |-> TRUE,
                  k |-> SubSeq(data, kstart + 1, kstart + ksize),
                  v |-> SubSeq(data, vstart + 1, vstart + vsize)]

\* copy_slice: the bytes of dst after the copy
copy_slice(dst, src) ==
    [i \in 1..Len(dst) |-> IF i <= Min(Len(dst), Len(src)) THEN src[i] ELSE dst[i]]

\* mutant of copy_count: the length of the value, whatever the buffer
copy_count_Src(dst, src) == Len(src)

\* copy_slice: the count it returns
copy_count(dst, src) == Min(Len(dst), Len(src))

\* mutant of KeyMatches: a matching hash is taken for a matching key
KeyMatches_HashOnly(kv, key) == TRUE

\* a slot whose hash matches: Reader::get compares the stored key
KeyMatches(kv, key) == kv.k = key

RECURSIVE GetLoop(_, _, _, _, _, _, _)
\* the probe loop of Reader::get, from iteration x on
GetLoop(data, key, hash, bucket, start, dest, x) ==
    IF x >= ToUsize(bucket.num_ents) THEN [res |-> NotFound, dest |-> dest]
    ELSE LET n  == (x + start) % ToUsize(bucket.num_ents)
             ie == index_entry_at(data, entry_n_pos(bucket, n))
         IN IF ~(n < ToUsize(bucket.num_ents)) \/ ~ie.ok
            THEN [res |-> Panic, dest |-> dest]
            ELSE IF ie.ptr = Zero32 THEN [res |-> NotFound, dest |-> dest]
            ELSE IF ie.hash = hash
            THEN LET kv == get_kv_ref(data, ie.ptr)
                 IN IF ~kv.ok THEN [res |-> Panic, dest |-> dest]
                    ELSE IF KeyMatches(kv, key)
                    THEN [res |-> Found(copy_count(dest, kv.v)),
                          dest |-> copy_slice(dest, kv.v)]
                    ELSE GetLoop(data, key, hash, bucket, start, dest, x + 1)
            ELSE GetLoop(data, key, hash, bucket, start, dest, x + 1)

\* Reader::get: the result and the destination buffer it leaves
get(data, key, dest) ==
    LET hash   == CDBHashNew(key)
        bucket == bucket_at(data, table(hash))
    IN IF ~bucket.ok THEN [res |-> Panic, dest |-> dest]
       ELSE IF bucket.num_ents = Zero32 THEN [res |-> NotFound, dest |-> dest]
       ELSE GetLoop(data, key, hash, bucket,
                    slot(hash, ToUsize(bucket.num_ents)), dest, 0)

\* tests::round_trip_test: once the Writer is dropped, a Reader over the
\* loaded bytes of the file looks key up into dest
Get(key, dest) ==
    /\ wstate = "dropped"
    /\ LET r == get(LoadBytes(file, pos), key, dest)
       IN /\ rkey' = key
          /\ rdest0' = dest
          /\ rdest' = r.dest
          /\ rres' = r.res
    /\ UNCHANGED << wvars, ovars >>

\* ------------------------------------------------------------ specification
NoGet == [kind |-> "NoGet", n |-> 0]

\* no file damaged, no finalize failed, no concurrent call begun
NoDamage == [kind |-> "none", n |-> 0, b |-> 0, key |-> << >>]

Readers == { "r1", "r2" }

IdleCall == [pc |-> "idle"]

\* before any Writer, Reader, hash or pool exists
NoCdb ==
    /\ file = << >>
    /\ pos = 0
    /\ index = [b \in 0..(MAIN_TABLE_SIZE - 1) |-> << >>]
    /\ wstate = "none"
    /\ puts = << >>
    /\ nfinal = 0
    /\ rkey = << >>
    /\ rdest0 = << >>
    /\ rdest = << >>
    /\ rres = NoGet
    /\ damage = NoDamage
    /\ werr = "none"
    /\ nfail = 0
    /\ calls = [c \in Readers |-> IdleCall]

NoHash ==
    /\ hkey = << >>
    /\ hval = [done |-> FALSE, h |-> Zero32]

NoPool ==
    /\ freeq = << >>
    /\ nused = 0
    /\ nmax = 0
    /\ obj_size = 0
    /\ taken = { }
    /\ ntake = 0
    /\ nput = 0
    /\ nalloc = 0
    /\ plast = [op |-> "none"]

Init == NoCdb /\ NoHash /\ NoPool

Next ==
    \/ WriterNew
    \/ \E key \in Keys, value \in Values : Put(key, value)
    \/ Drop
    \/ \E key \in Keys, dest \in Bufs : Get(key, dest)

Spec == Init /\ [][Next]_vars

\* ------------------------------------------------------- history operators
\* the bytes a Reader is given
Data == LoadBytes(file, pos)

Finalised == wstate = "dropped"

\* the state Drop leaves: the file as finalize wrote it, before any get
\* (a get changes no byte of the file)
JustFinalised == Finalised /\ rres = NoGet

\* a get has run on the finalised file
GetDone == Finalised /\ rres # NoGet

PutIdx == 1..Len(puts)

IsPut(k) == \E i \in PutIdx : puts[i].k = k

\* k was put exactly once
PutOnce(k) == Cardinality({i \in PutIdx : puts[i].k = k}) = 1

DistinctKeys == \A i, j \in PutIdx : i # j => puts[i].k # puts[j].k

\* the index of the earliest put of k
FirstPut(k) == CHOOSE i \in PutIdx :
                   puts[i].k = k /\ \A j \in PutIdx : puts[j].k = k => i <= j

\* the bucket a key belongs to: H mod 256 is the low byte of H
BucketOf(k) == CDBHashNew(k).lo % 256

\* the number of puts whose key hashes to bucket b
NumPutsIn(b) == Cardinality({i \in PutIdx : BucketOf(puts[i].k) = b})

\* the end of the record region: the offset after the last record
RecordEnd ==
    IF puts = << >> THEN MAIN_TABLE_SIZE_BYTES
    ELSE puts[Len(puts)].off + 8 + Len(puts[Len(puts)].k) + Len(puts[Len(puts)].v)

\* byte i (from 1) of the loaded bytes, without loading them
DataAt(i) == file[pos + i]

\* the four little-endian bytes at offset off of the file, as a number
Dec32(off) ==
    DataAt(off + 1) + 256 * DataAt(off + 2) + 65536 * DataAt(off + 3)
        + 16777216 * DataAt(off + 4)

\* primary-table entry b of the file
PrimPtr(b) == Dec32(8 * b)
PrimNum(b) == Dec32(8 * b + 4)

\* slot j of the secondary table of bucket b
SlotHash(b, j) ==
    [hi |-> DataAt(PrimPtr(b) + 8 * j + 3) + 256 * DataAt(PrimPtr(b) + 8 * j + 4),
     lo |-> DataAt(PrimPtr(b) + 8 * j + 1) + 256 * DataAt(PrimPtr(b) + 8 * j + 2)]
SlotPtr(b, j) == Dec32(PrimPtr(b) + 8 * j + 4)

\* the record of put i is in the file at its offset: klen, vlen, key, value
RecordStored(i) ==
    /\ puts[i].off + 8 + Len(puts[i].k) + Len(puts[i].v) <= Len(Data)
    /\ Dec32(puts[i].off) = Len(puts[i].k)
    /\ Dec32(puts[i].off + 4) = Len(puts[i].v)
    /\ SubSeq(Data, puts[i].off + 9, puts[i].off + 8 + Len(puts[i].k)) = puts[i].k
    /\ SubSeq(Data, puts[i].off + 9 + Len(puts[i].k),
              puts[i].off + 8 + Len(puts[i].k) + Len(puts[i].v)) = puts[i].v

\* the slots of bucket b's table that point at the record of put i
SlotsOf(b, i) == {j \in 0..(PrimNum(b) - 1) : SlotPtr(b, j) = puts[i].off}

\* the first n bytes of dest are the first n bytes of v, the rest is as before
CopiedPrefix(v, n) ==
    /\ Len(rdest) = Len(rdest0)
    /\ \A i \in 1..Len(rdest) : rdest[i] = IF i <= n THEN v[i] ELSE rdest0[i]

\* ------------------------------------------------------------------ claims
Buckets == 0..(MAIN_TABLE_SIZE - 1)

\* C1: round trip.  After Writer::new, puts of pairwise distinct keys and
\* finalisation, a get of a written key k into a buffer at least as long as
\* its value v returns Found(|v|) and the first |v| bytes of the buffer are v.
C1_RoundTrip ==
    (GetDone /\ DistinctKeys /\ IsPut(rkey)
        /\ Len(rdest0) >= Len(puts[FirstPut(rkey)].v))
    => /\ rres = Found(Len(puts[FirstPut(rkey)].v))
       /\ SubSeq(rdest, 1, Len(puts[FirstPut(rkey)].v)) = puts[FirstPut(rkey)].v

\* the zero-length key, put with a non-empty value next to a key with a
\* zero-length value, has been looked up
C1_Witness ==
    /\ GetDone /\ DistinctKeys /\ Len(puts) = 2
    /\ rkey = << >> /\ IsPut(<< >>)
    /\ puts[FirstPut(<< >>)].v # << >>
    /\ \E i \in PutIdx : puts[i].v = << >>
    /\ Len(rdest0) >= Len(puts[FirstPut(rkey)].v)
    /\ rres.kind = "Found"

\* C2: absence.  On a finalised file a get of a key that was never put
\* returns NotFound (no error, no panic) and leaves the buffer alone,
\* whichever bucket and start slot the key hashes to.
C2_Absence ==
    (GetDone /\ ~IsPut(rkey)) => (rres = NotFound /\ rdest = rdest0)

\* an absent key was looked up in a table that holds a key of the same hash
C2_Witness ==
    /\ GetDone /\ ~IsPut(rkey)
    /\ \E i \in PutIdx : CDBHashNew(puts[i].k) = CDBHashNew(rkey)
    /\ rres = NotFound

\* C3: truncation.  A get of a key put once, with value v, returns
\* Found(min(|v|, |buf|)); the buffer holds the first min(|v|, |buf|) bytes
\* of v and its bytes from that count on are unchanged.
C3_Truncation ==
    (GetDone /\ PutOnce(rkey))
    => /\ rres = Found(Min(Len(puts[FirstPut(rkey)].v), Len(rdest0)))
       /\ CopiedPrefix(puts[FirstPut(rkey)].v,
                       Min(Len(puts[FirstPut(rkey)].v), Len(rdest0)))

\* a value longer than the buffer was copied
C3_Witness ==
    /\ GetDone /\ PutOnce(rkey)
    /\ Len(rdest0) < Len(puts[FirstPut(rkey)].v)
    /\ rres = Found(Len(rdest0))

\* C4: collision correctness.  A key put once that shares its primary
\* bucket with another put key (also with the same start slot or the same
\* 32-bit hash) is found by get, with its own value.
C4_Collision ==
    (GetDone /\ PutOnce(rkey)
        /\ \E i \in PutIdx : puts[i].k # rkey /\ BucketOf(puts[i].k) = BucketOf(rkey))
    => /\ rres.kind = "Found"
       /\ CopiedPrefix(puts[FirstPut(rkey)].v, rres.n)
       /\ rres.n = Min(Len(puts[FirstPut(rkey)].v), Len(rdest0))

\* the later of two keys of equal 32-bit hash and different values was
\* looked up and found
C4_Witness ==
    /\ GetDone /\ Len(puts) = 2
    /\ puts[1].k # puts[2].k
    /\ CDBHashNew(puts[1].k) = CDBHashNew(puts[2].k)
    /\ puts[1].v # puts[2].v
    /\ rkey = puts[2].k
    /\ rres.kind = "Found"

\* C5: duplicate keys.  Both puts of a key succeed, both records and both
\* index entries are in the finalised file, and get returns the value of
\* the earlier put.
C5_Duplicates ==
    Finalised =>
        \A i, j \in PutIdx :
            (i < j /\ puts[i].k = puts[j].k) =>
                /\ RecordStored(i) /\ RecordStored(j)
                /\ Cardinality(SlotsOf(BucketOf(puts[i].k), i)) = 1
                /\ Cardinality(SlotsOf(BucketOf(puts[i].k), j)) = 1
                /\ (rkey = puts[i].k /\ rres # NoGet /\ ~\E h \in 1..(i - 1) : puts[h].k = rkey)
                   => /\ rres = Found(Min(Len(puts[i].v), Len(rdest0)))
                      /\ CopiedPrefix(puts[i].v, rres.n)

\* a key put twice with different values was looked up
C5_Witness ==
    /\ GetDone /\ Len(puts) = 2
    /\ puts[1].k = puts[2].k /\ puts[1].v # puts[2].v
    /\ rkey = puts[1].k
    /\ rres.kind = "Found"

\* C6: abandoned Writer.  A Writer that leaves its scope after any number of
\* puts has run finalize exactly once, after its last put; the file then
\* holds every put record, indexed by one slot of its bucket, and a get of
\* every put key finds the value first put under it.
C6_Abandoned ==
    /\ ~Finalised => nfinal = 0
    /\ Finalised =>
        /\ nfinal = 1
        /\ \A i \in PutIdx :
            /\ RecordStored(i)
            /\ Cardinality(SlotsOf(BucketOf(puts[i].k), i)) = 1
            /\ get(Data, puts[i].k, [n \in 1..MaxBuf |-> 0]).res
                   = Found(Len(puts[FirstPut(puts[i].k)].v))
            /\ SubSeq(get(Data, puts[i].k, [n \in 1..MaxBuf |-> 0]).dest, 1,
                      Len(puts[FirstPut(puts[i].k)].v))
                   = puts[FirstPut(puts[i].k)].v

\* a Writer was dropped right after its last put
C6_Witness ==
    /\ Finalised /\ nfinal = 1 /\ rres = NoGet
    /\ Len(puts) = 2 /\ puts[1].k # puts[2].k

\* the (ptr, num_ents) pairs of the primary table, bucket b at index b + 1
PrimPtrs == SubSeq([i \in 1..MAIN_TABLE_SIZE |-> PrimPtr(i - 1)], 1, MAIN_TABLE_SIZE)
PrimNums == SubSeq([i \in 1..MAIN_TABLE_SIZE |-> PrimNum(i - 1)], 1, MAIN_TABLE_SIZE)

\* C7: load factor.  In a finalised file the num_ents of every bucket b is
\* even and is twice the number of puts whose hash mod 256 is b.
C7_LoadFactor ==
    JustFinalised =>
        /\ Len(Data) >= MAIN_TABLE_SIZE_BYTES
        /\ \A b \in Buckets :
            PrimNum(b) % 2 = 0 /\ PrimNum(b) = 2 * NumPutsIn(b)

RECURSIVE SlotBytesOf(_)
\* the bytes of the secondary tables of the buckets of S
SlotBytesOf(S) ==
    IF S = {} THEN 0
    ELSE LET b == CHOOSE x \in S : TRUE
         IN 8 * PrimNum(b) + SlotBytesOf(S \ {b})

\* C8: unused buckets.  In a finalised file the primary-table entry of every
\* bucket no put key hashed to is (0, 0), and the file holds slot bytes for
\* the other buckets only.
C8_UnusedBuckets ==
    JustFinalised =>
        /\ Len(Data) >= MAIN_TABLE_SIZE_BYTES
        /\ \A b \in Buckets :
            NumPutsIn(b) = 0 => (PrimPtr(b) = 0 /\ PrimNum(b) = 0)
        /\ Len(Data) = RecordEnd + SlotBytesOf({BucketOf(puts[i].k) : i \in PutIdx})

\* C9: primary table.  After finalisation bytes [0, 2048) are the 256
\* entries in bucket order (a put's record is indexed by the table of its
\* bucket's entry); every non-zero ptr is at least 2048; the table of every
\* bucket with slots lies inside the file, after the record region, and
\* overlaps no other bucket's table.
C9_PrimaryTable ==
    JustFinalised =>
        /\ Len(Data) >= MAIN_TABLE_SIZE_BYTES
        /\ LET P == PrimPtrs
               N == PrimNums
           IN \A b \in 1..MAIN_TABLE_SIZE :
               /\ P[b] # 0 => P[b] >= MAIN_TABLE_SIZE_BYTES
               /\ N[b] > 0 =>
                   /\ P[b] >= RecordEnd
                   /\ P[b] + 8 * N[b] <= Len(Data)
                   /\ \A c \in (b + 1)..MAIN_TABLE_SIZE :
                       N[c] > 0 =>
                           (P[b] + 8 * N[b] <= P[c] \/ P[c] + 8 * N[c] <= P[b])
        /\ \A i \in PutIdx : SlotsOf(BucketOf(puts[i].k), i) # {}

\* a file was finalised with records in two buckets
C9_Witness ==
    /\ JustFinalised /\ Len(puts) = 2
    /\ BucketOf(puts[1].k) # BucketOf(puts[2].k)
    /\ PrimNum(BucketOf(puts[1].k)) > 0
    /\ PrimPtr(BucketOf(puts[1].k)) >= RecordEnd

\* C10: slots.  In a finalised file every non-empty slot (h, p) of the table
\* of bucket b has p >= 2048 and h mod 256 = b; p is the offset of the klen
\* field of a record a put wrote and h is the hash of that record's key.
C10_Slots ==
    JustFinalised =>
        /\ Len(Data) >= MAIN_TABLE_SIZE_BYTES
        /\ \A b \in Buckets :
            /\ PrimPtr(b) + 8 * PrimNum(b) <= Len(Data)
            /\ \A j \in 0..(PrimNum(b) - 1) :
                SlotPtr(b, j) # 0 =>
                    /\ SlotPtr(b, j) >= MAIN_TABLE_SIZE_BYTES
                    /\ SlotHash(b, j).lo % 256 = b
                    /\ \E i \in PutIdx :
                        /\ puts[i].off = SlotPtr(b, j)
                        /\ RecordStored(i)
                        /\ SlotHash(b, j) = CDBHashNew(puts[i].k)

\* a table holds two non-empty slots, one of them of a hash above 2^31
C10_Witness ==
    /\ JustFinalised /\ Len(puts) = 2
    /\ puts[1].k = LongKey /\ puts[2].k # LongKey
    /\ BucketOf(puts[2].k) = BucketOf(LongKey)
    /\ Cardinality({j \in 0..(PrimNum(BucketOf(LongKey)) - 1) :
                       SlotPtr(BucketOf(LongKey), j) # 0}) = 2

\* the distance along the probe path from slot s to slot j of n slots
ProbeDist(s, j, n) == (j + n - s) % n

\* C18: empty-slot sentinel soundness.  In every secondary table finalize
\* wrote, for every entry (H, p) stored at slot j of a table of num_ents
\* slots, every slot on the probe path from (H >> 8) mod num_ents up to but
\* excluding j is non-empty.
C18_Sentinel ==
    JustFinalised =>
        \A b \in Buckets :
            \A j \in 0..(PrimNum(b) - 1) :
                SlotPtr(b, j) # 0 =>
                    \A i \in 0..(ProbeDist(slot(SlotHash(b, j), PrimNum(b)),
                                            j, PrimNum(b)) - 1) :
                        SlotPtr(b, (slot(SlotHash(b, j), PrimNum(b)) + i)
                                       % PrimNum(b)) # 0

\* an entry is stored away from its start slot, behind a taken one
C18_Witness ==
    /\ JustFinalised
    /\ \E j \in 0..(PrimNum(BucketOf(LongKey)) - 1) :
        /\ SlotPtr(BucketOf(LongKey), j) # 0
        /\ ProbeDist(slot(SlotHash(BucketOf(LongKey), j),
                          PrimNum(BucketOf(LongKey))),
                     j, PrimNum(BucketOf(LongKey))) > 0

\* the non-empty slots << b, j >> of the file
NonEmptySlots ==
    UNION { { << b, j >> : j \in { x \in 0..(PrimNum(b) - 1) : SlotPtr(b, x) # 0 } }
            : b \in Buckets }

\* C19: placement is total and injective.  Every entry a put pushed finds a
\* free slot and is stored in exactly one slot, no placed entry is
\* overwritten: in the finalised file each put record's offset appears in
\* exactly one slot of exactly one bucket, and no other slot is non-empty.
C19_Placement ==
    JustFinalised =>
        /\ \A i \in PutIdx :
               Cardinality({ s \in NonEmptySlots :
                               SlotPtr(s[1], s[2]) = puts[i].off }) = 1
        /\ Cardinality(NonEmptySlots) = Len(puts)

\* two entries of one start slot are both stored, the later one past the
\* end of the table at slot 0
C19_Witness ==
    /\ JustFinalised /\ Len(puts) = 2
    /\ puts[1].k = << 88, 92 >> /\ puts[2].k = << 4, 0 >>
    /\ SlotPtr(BucketOf(puts[1].k), 5) = puts[1].off
    /\ SlotPtr(BucketOf(puts[2].k), 0) = puts[2].off

\* ------------------------------------------ a file that writes short
\* the counts a write call of 2048 bytes may return as accepted
Accepted ==
    { 0, END_TABLE_ENTRY_SIZE, MAIN_TABLE_SIZE_BYTES \div 2,
      MAIN_TABLE_SIZE_BYTES - 1, MAIN_TABLE_SIZE_BYTES }

NextShortWrite ==
    \/ \E n \in Accepted : WriterNewAccepting(n)
    \/ \E key \in Keys, value \in Values : Put(key, value)
    \/ Drop

\* the Writer over any writable, seekable file
SpecShortWrite == Init /\ [][NextShortWrite]_vars

\* C20: record offsets are never the sentinel.  For every Writer whose
\* construction returned Ok, whatever number of bytes the construction-time
\* write call reported as accepted, every entry a put pushed to the index
\* has ptr >= 2048, in particular ptr # 0.
C20_OffsetsPastTable ==
    wstate # "none" =>
        \A b \in Buckets :
            \A n \in 2..Len(index[b]) :
                /\ ToUsize(index[b][n].ptr) >= MAIN_TABLE_SIZE_BYTES
                /\ index[b][n].ptr # Zero32

\* ------------------------------------------ a file whose seek or write fails
\* the calls of finalize that may fail: the first seek to EOF, the seek and
\* the write_all of bucket b, the seek to 0, the write_all of the primary
\* table, the last seek to 0; w is the count of bytes a failing write_all
\* had written before its error
FailBuckets == { 0, STARTING_HASH % MAIN_TABLE_SIZE }

FailWritten == { 0, INDEX_ENTRY_SIZE }

Failures ==
    { [step |-> s, b |-> 0, w |-> 0] : s \in { "seek_end", "seek_start", "seek_bof" } }
        \cup { [step |-> "table_seek", b |-> b, w |-> 0] : b \in FailBuckets }
        \cup { [step |-> "table_write", b |-> b, w |-> w] :
                   b \in FailBuckets, w \in FailWritten }
        \cup { [step |-> "buckets_write", b |-> 0, w |-> w] : w \in FailWritten }

\* the tables of the buckets before b, written by the loop of finalize
TablesBefore(idx, f, b) ==
    IF b = 0 THEN << << >>, f >> ELSE FinalizeTables(idx, f, 0, b)

\* Writer::finalize returning Err at the call fl names: the file and the
\* cursor it leaves behind (full is the outcome of the loop over all lists)
FinalizeFailing(idx, f, p, fl, full) ==
    LET part == TablesBefore(idx, f, fl.b)
    IN CASE fl.step = "seek_end" -> [file |-> f, pos |-> p]
         [] fl.step = "table_seek" -> [file |-> part[2], pos |-> Len(part[2])]
         [] fl.step = "table_write" ->
                [file |-> part[2] \o SubSeq(SlotBytes(Ordered(idx[fl.b]), 1), 1, fl.w),
                 pos  |-> Len(part[2]) + fl.w]
         [] fl.step = "seek_start" -> [file |-> full[2], pos |-> Len(full[2])]
         [] fl.step = "buckets_write" ->
                [file |-> WriteAt(full[2], 0,
                                  SubSeq(BucketBytes(full[1], 0, Len(full[1])), 1, fl.w)),
                 pos  |-> fl.w]
         [] fl.step = "seek_bof" ->
                [file |-> WriteAt(full[2], 0, BucketBytes(full[1], 0, Len(full[1]))),
                 pos  |-> MAIN_TABLE_SIZE_BYTES]

\* mutant of Unwrap: the result of finalize is discarded
Unwrap_Discard(err) == "dropped"

\* self.finalize().unwrap() in drop: Err panics, Ok lets the drop complete
Unwrap(err) == IF err = "none" THEN "dropped" ELSE "panicked"

\* impl Drop for Writer, with a seek or write of finalize failing
DropFailing ==
    /\ wstate = "open"
    /\ LET full == FinalizeTables(index, file, 0, MAIN_TABLE_SIZE)
       IN \E fl \in Failures :
              LET out == FinalizeFailing(index, file, pos, fl, full)
              IN /\ file' = out.file
                 /\ pos' = out.pos
    /\ werr' = "io"
    /\ wstate' = Unwrap("io")
    /\ nfinal' = nfinal + 1
    /\ UNCHANGED << index, puts, rvars, damage, nfail, calls, hkey, hval, pvars >>

NextIoFail ==
    \/ WriterNew
    \/ \E key \in Keys, value \in Values : Put(key, value)
    \/ Drop
    \/ DropFailing

SpecIoFail == Init /\ [][NextIoFail]_vars

\* C13: a failing finalisation is surfaced.  Whenever a seek or write of
\* finalize failed while the Writer was dropped, the drop ended in a panic
\* carrying the error: the Writer is never released normally with the error
\* discarded.
C13_Surfaced ==
    /\ werr # "none" => wstate = "panicked"
    /\ wstate = "dropped" => werr = "none"

\* finalize failed after it had written a table past the records of a put
C13_Witness ==
    /\ werr = "io" /\ wstate = "panicked"
    /\ puts # << >>
    /\ Len(file) > RecordEnd

\* ------------------------------------------------------- the hash alone
\* the bytes of the strings hashed: 0, 'a', and two with the top bit set
HashBytes == { 0, 97, 128, 255 }

RECURSIVE BytesUpTo(_)
\* the strings over HashBytes of length at most n
BytesUpTo(n) ==
    IF n = 0 THEN { << >> }
    ELSE BytesUpTo(n - 1)
             \cup { Append(b, x) : b \in BytesUpTo(n - 1), x \in HashBytes }

InitHash ==
    /\ NoCdb /\ NoPool
    /\ hkey \in BytesUpTo(MaxHashLen)
    /\ hval = [done |-> FALSE, h |-> Zero32]

\* a call of CDBHash::new on hkey
HashNew ==
    /\ ~hval.done
    /\ hval' = [done |-> TRUE, h |-> CDBHashNew(hkey)]
    /\ UNCHANGED << wvars, rvars, damage, werr, nfail, calls, hkey, pvars >>

SpecHash == InitHash /\ [][HashNew]_vars

\* C14 as stated: CDBHash::new("") is 5381 and CDBHash::new("a") is
\* (5381 * 33) XOR 97 = 177638.
C14_AsStated ==
    hval.done =>
        /\ hkey = << >> => hval.h = U32Of(5381)
        /\ hkey = << 97 >> => hval.h = U32Of(177638)

\* C14, amended: CDBHash::new("") is 5381 and CDBHash::new("a") is
\* (5381 * 33) XOR 97, which is 177604.
C14_HashValues ==
    hval.done =>
        /\ hkey = << >> => hval.h = U32Of(5381)
        /\ hkey = << 97 >> =>
               /\ hval.h = U32Of(177604)
               /\ ToUsize(hval.h) = Xor(5381 * 33, 97)

\* the string "a" has been hashed
C14_Witness == hval.done /\ hkey = << 97 >>

\* ------------------------------------------------------------------ Pool
\* std::usize::MAX, as far as the integers of TLC reach (2^31 - 1):
\* nused stays far below it
UsizeMax == (2 ^ 30 - 1) * 2 + 1

\* the obj_size given to Pool::new
ObjSizes == { 1, 5 }

\* the init callback of the tests: |buf| buf[0] = 1
initfn(bytes) == [bytes EXCEPT ![1] = 1]

\* Pool::allocate_one: a zeroed buffer of obj_size bytes, the callback run
\* on it; id tells the allocations apart, as the address of the Box does
allocate_one(id) == [id |-> id, bytes |-> initfn(Zeros(obj_size))]

None == [id |-> 0, bytes |-> << >>]

\* Pool::new(obj_size, nmax, initfn): nmax 0 stands for no limit
PoolNew(sz, nm) ==
    /\ freeq = << >>
    /\ obj_size = sz
    /\ nused = 0
    /\ nmax = IF nm = 0 THEN UsizeMax ELSE nm
    /\ taken = { }
    /\ ntake = 0
    /\ nput = 0
    /\ nalloc = 0
    /\ plast = [op |-> "new"]

InitPool ==
    /\ NoCdb /\ NoHash
    /\ \E sz \in ObjSizes, nm \in 0..MaxNmax : PoolNew(sz, nm)

\* Pool::prealloc(size): allocate until freeq holds size buffers
PoolPrealloc(size) ==
    /\ size > Len(freeq)
    /\ freeq' = freeq \o [i \in 1..(size - Len(freeq)) |-> allocate_one(nalloc + i)]
    /\ nalloc' = nalloc + (size - Len(freeq))
    /\ plast' = [op |-> "prealloc"]
    /\ UNCHANGED << nused, nmax, obj_size, taken, ntake, nput >>
    /\ UNCHANGED << wvars, rvars, damage, werr, nfail, calls, hkey, hval >>

\* mutant of PoolTake: a buffer is allocated whatever nused is
PoolTake_NoLimit ==
    /\ ntake < MaxTakes
    /\ LET item == IF freeq # << >> THEN Head(freeq) ELSE allocate_one(nalloc + 1)
       IN /\ freeq' = IF freeq # << >> THEN Tail(freeq) ELSE freeq
          /\ nalloc' = IF freeq # << >> THEN nalloc ELSE nalloc + 1
          /\ nused' = nused + 1
          /\ ntake' = ntake + 1
          /\ taken' = taken \cup { item }
          /\ plast' = [op |-> "take", item |-> item, freeq0 |-> freeq,
                       nused0 |-> nused, nalloc0 |-> nalloc]
    /\ UNCHANGED << nmax, obj_size, nput >>
    /\ UNCHANGED << wvars, rvars, damage, werr, nfail, calls, hkey, hval >>

\* Pool::take: the front of freeq, or else a new buffer while nused is
\* below nmax, or else None; nused counts the buffer handed out
PoolTake ==
    /\ ntake < MaxTakes
    /\ LET item == IF freeq # << >> THEN Head(freeq)
                   ELSE IF nused < nmax THEN allocate_one(nalloc + 1)
                   ELSE None
       IN /\ freeq' = IF freeq # << >> THEN Tail(freeq) ELSE freeq
          /\ nalloc' = IF freeq = << >> /\ nused < nmax THEN nalloc + 1 ELSE nalloc
          /\ nused' = IF item # None THEN nused + 1 ELSE nused
          /\ ntake' = IF item # None THEN ntake + 1 ELSE ntake
          /\ taken' = IF item # None THEN taken \cup { item } ELSE taken
          /\ plast' = [op |-> "take", item |-> item, freeq0 |-> freeq,
                       nused0 |-> nused, nalloc0 |-> nalloc]
    /\ UNCHANGED << nmax, obj_size, nput >>
    /\ UNCHANGED << wvars, rvars, damage, werr, nfail, calls, hkey, hval >>

\* mutant of PoolPut: the buffer is queued, nused is left as it was
PoolPut_NoDecrement(item) ==
    /\ item \in taken
    /\ freeq' = Append(freeq, item)
    /\ taken' = taken \ { item }
    /\ nput' = nput + 1
    /\ plast' = [op |-> "put", item |-> item, freeq0 |-> freeq,
                 nused0 |-> nused, nalloc0 |-> nalloc]
    /\ UNCHANGED << nused, nmax, obj_size, ntake, nalloc >>
    /\ UNCHANGED << wvars, rvars, damage, werr, nfail, calls, hkey, hval >>

\* Pool::put(item), of a buffer take handed out and not yet put back
PoolPut(item) ==
    /\ item \in taken
    /\ freeq' = Append(freeq, item)
    /\ nused' = nused - 1
    /\ taken' = taken \ { item }
    /\ nput' = nput + 1
    /\ plast' = [op |-> "put", item |-> item, freeq0 |-> freeq,
                 nused0 |-> nused, nalloc0 |-> nalloc]
    /\ UNCHANGED << nmax, obj_size, ntake, nalloc >>
    /\ UNCHANGED << wvars, rvars, damage, werr, nfail, calls, hkey, hval >>

NextPool ==
    \/ \E size \in 1..MaxPrealloc : PoolPrealloc(size)
    \/ PoolTake
    \/ \E item \in taken : PoolPut(item)

SpecPool == InitPool /\ [][NextPool]_vars

\* C16: take.  Pool::take returns None exactly when the free queue is empty
\* and nused has reached nmax; otherwise it returns a buffer of obj_size
\* bytes, the front of the free queue if there is one, else a newly allocated
\* buffer on which the init callback has run, and nused grows by exactly
\* one; a take that returns None changes nothing.
C16_Take ==
    plast.op = "take" =>
        /\ plast.item = None <=> (plast.freeq0 = << >> /\ plast.nused0 >= nmax)
        /\ plast.item # None =>
               /\ Len(plast.item.bytes) = obj_size
               /\ nused = plast.nused0 + 1
               /\ plast.freeq0 # << >> =>
                      /\ plast.item = Head(plast.freeq0)
                      /\ freeq = Tail(plast.freeq0)
                      /\ nalloc = plast.nalloc0
               /\ plast.freeq0 = << >> =>
                      /\ plast.item.id = plast.nalloc0 + 1
                      /\ nalloc = plast.nalloc0 + 1
                      /\ plast.item.bytes = initfn(Zeros(obj_size))
                      /\ freeq = << >>
        /\ plast.item = None =>
               /\ freeq = plast.freeq0
               /\ nused = plast.nused0
               /\ nalloc = plast.nalloc0

\* a take returned None, after takes that returned buffers and a put
C16_Witness ==
    /\ plast.op = "take" /\ plast.item = None
    /\ nput > 0 /\ ntake > nput

\* C17: accounting.  With every put returning a buffer a take handed out
\* and not yet put back, nused is the number of successful takes less the
\* number of puts, that is the number of buffers outstanding; a put appends
\* its buffer to the back of the free queue, which grows by one, and lowers
\* nused by one; once every outstanding buffer is back nused is 0.
C17_Accounting ==
    /\ nused = ntake - nput
    /\ nused = Cardinality(taken)
    /\ taken = { } => nused = 0
    /\ plast.op = "put" =>
           /\ freeq = Append(plast.freeq0, plast.item)
           /\ Len(freeq) = Len(plast.freeq0) + 1
           /\ nused = plast.nused0 - 1

\* the last of three outstanding buffers has been put back
C17_Witness ==
    /\ plast.op = "put"
    /\ ntake = 3 /\ nput = 3
    /\ taken = { }
    /\ Len(freeq) >= 3

\* ------------------------------------------------- malformed bytes
\* a key of bucket 255 whose probe path starts at the last slot of a table
\* of two slots: "Z", of hash 177663
LastKey == << 90 >>

\* the keys looked up in malformed bytes
ProbeKeys == Keys \cup { LastKey }

\* the buckets whose primary-table entry is damaged
DamageBuckets == { table(CDBHashNew(k)) : k \in { << >>, LongKey, LastKey } }

\* a length no file of the model reaches: 65536
FarOff == [hi |-> 1, lo |-> 0]

\* the ways the bytes handed to Reader::new differ from what finalize wrote:
\* cut to n bytes, below the primary table's size ("short"); the last byte
\* removed ("cut1"); the ptr of bucket b at the end of the data
\* ("bucket_eof") or inside the primary table ("bucket_main"); the ptr of
\* the slot of key's first record past the end of the data ("slot_eof");
\* the klen of that record reaching past the end of the data ("klen_eof")
Damages ==
    { [kind |-> "short", n |-> n, b |-> 0, key |-> << >>] :
          n \in { 0, MAIN_TABLE_SIZE_BYTES - 1 } }
        \cup { [kind |-> "cut1", n |-> 0, b |-> 0, key |-> << >>] }
        \cup { [kind |-> k, n |-> 0, b |-> b, key |-> << >>] :
                   k \in { "bucket_eof", "bucket_main" }, b \in DamageBuckets }
        \cup { [kind |-> k, n |-> 0, b |-> BucketOf(puts[i].k), key |-> puts[i].k] :
                   k \in { "slot_eof", "klen_eof" }, i \in PutIdx }

\* the bytes after damage d
Damaged(f, d) ==
    CASE d.kind = "short" -> SubSeq(f, 1, d.n)
      [] d.kind = "cut1" -> SubSeq(f, 1, Len(f) - 1)
      [] d.kind = "bucket_eof" -> WriteAt(f, 8 * d.b, put_u32_le(U32Of(Len(f))))
      [] d.kind = "bucket_main" ->
             WriteAt(f, 8 * d.b, put_u32_le(U32Of(END_TABLE_ENTRY_SIZE)))
      [] d.kind = "slot_eof" ->
             LET j == CHOOSE x \in SlotsOf(d.b, FirstPut(d.key)) : TRUE
             IN WriteAt(f, PrimPtr(d.b) + 8 * j + 4, put_u32_le(U32Of(Len(f))))
      [] d.kind = "klen_eof" ->
             WriteAt(f, puts[FirstPut(d.key)].off, put_u32_le(FarOff))

\* the finalised file is damaged before a Reader is given its bytes
DamageFile(d) ==
    /\ wstate = "dropped" /\ damage = NoDamage /\ rres = NoGet
    /\ file' = Damaged(file, d)
    /\ damage' = d
    /\ UNCHANGED << pos, index, wstate, puts, nfinal, rvars >>
    /\ UNCHANGED << werr, nfail, calls, hkey, hval, pvars >>

NextDamaged ==
    \/ WriterNew
    \/ \E key \in Keys, value \in Values : Put(key, value)
    \/ Drop
    \/ \E d \in Damages : DamageFile(d)
    \/ \E key \in ProbeKeys, dest \in { b \in Bufs : Len(b) = MaxBuf } :
           Get(key, dest)

SpecDamaged == Init /\ [][NextDamaged]_vars

\* the lookup of the last get follows a damaged offset
FollowsDamage ==
    \/ damage.kind = "short"
    \/ damage.kind \in { "bucket_eof", "bucket_main" } /\ BucketOf(rkey) = damage.b
    \/ damage.kind \in { "slot_eof", "klen_eof" } /\ rkey = damage.key

\* C11: malformed input yields Corrupt.  For any bytes shorter than 2048, or
\* in which an offset the lookup follows is out of range (a bucket ptr past
\* the end of the data or inside the primary table, a record ptr past the
\* end, a klen reaching past the end), get returns an error of kind
\* Corrupt: it does not panic and returns neither Found nor NotFound.
C11_Corrupt ==
    (rres # NoGet /\ FollowsDamage) => rres.kind = "Corrupt"

\* C12: truncated file.  With the last byte of a file the Writer produced
\* removed, get of any key returns Corrupt, NotFound or Found, and in no
\* case panics.
C12_Truncated ==
    (rres # NoGet /\ damage.kind = "cut1") =>
        /\ rres.kind \in { "Corrupt", "NotFound", "Found" }
        /\ rres.kind # "Panic"

\* ------------------------------------------------- concurrent lookups
\* the keys put and looked up by the concurrent calls: two of one hash and
\* a third of the same bucket and start slot
ConcKeys == { << 4, 0 >>, << 7, 35 >> }

ConcGetKeys == ConcKeys \cup { << 88, 92 >> }

\* a call that has returned res, leaving dest in the caller's buffer
DoneCall(key, dest0, dest, res) ==
    [pc |-> "done", key |-> key, dest0 |-> dest0, dest |-> dest, res |-> res]

\* Reader::get up to its loop: the hash, the bucket, the start slot
BeginOf(data, key, dest) ==
    LET hash   == CDBHashNew(key)
        bucket == bucket_at(data, table(hash))
    IN IF ~bucket.ok THEN DoneCall(key, dest, dest, Panic)
       ELSE IF bucket.num_ents = Zero32 THEN DoneCall(key, dest, dest, NotFound)
       ELSE [pc |-> "probe", key |-> key, dest0 |-> dest, hash |-> hash,
             bucket |-> bucket,
             start |-> slot(hash, ToUsize(bucket.num_ents)), x |-> 0]

\* one iteration of the loop of Reader::get, for the call cl
StepOf(data, cl) ==
    IF cl.x >= ToUsize(cl.bucket.num_ents)
    THEN DoneCall(cl.key, cl.dest0, cl.dest0, NotFound)
    ELSE LET n  == (cl.x + cl.start) % ToUsize(cl.bucket.num_ents)
             ie == index_entry_at(data, entry_n_pos(cl.bucket, n))
         IN IF ~ie.ok THEN DoneCall(cl.key, cl.dest0, cl.dest0, Panic)
            ELSE IF ie.ptr = Zero32
            THEN DoneCall(cl.key, cl.dest0, cl.dest0, NotFound)
            ELSE IF ie.hash = cl.hash
            THEN LET kv == get_kv_ref(data, ie.ptr)
                 IN IF ~kv.ok THEN DoneCall(cl.key, cl.dest0, cl.dest0, Panic)
                    ELSE IF KeyMatches(kv, cl.key)
                    THEN DoneCall(cl.key, cl.dest0, copy_slice(cl.dest0, kv.v),
                                  Found(copy_count(cl.dest0, kv.v)))
                    ELSE [cl EXCEPT !.x = cl.x + 1]
            ELSE [cl EXCEPT !.x = cl.x + 1]

\* caller c begins get(key, dest) on the shared Reader
CallBegin(c, key, dest) ==
    /\ wstate = "dropped"
    /\ calls[c].pc = "idle"
    /\ calls' = [calls EXCEPT ![c] = BeginOf(LoadBytes(file, pos), key, dest)]
    /\ UNCHANGED << wvars, rvars, damage, werr, nfail, hkey, hval, pvars >>

\* mutant of CallStep: the slot a call has read is cleared in the data
CallStep_Scribble(c) ==
    /\ calls[c].pc = "probe"
    /\ calls' = [calls EXCEPT ![c] = StepOf(LoadBytes(file, pos), calls[c])]
    /\ file' = WriteAt(file,
                       entry_n_pos(calls[c].bucket,
                                   (calls[c].x + calls[c].start)
                                       % ToUsize(calls[c].bucket.num_ents)),
                       Zeros(END_TABLE_ENTRY_SIZE))
    /\ UNCHANGED << pos, index, wstate, puts, nfinal >>
    /\ UNCHANGED << rvars, damage, werr, nfail, hkey, hval, pvars >>

\* the call of caller c runs one iteration of its loop
CallStep(c) ==
    /\ calls[c].pc = "probe"
    /\ calls' = [calls EXCEPT ![c] = StepOf(LoadBytes(file, pos), calls[c])]
    /\ UNCHANGED << wvars, rvars, damage, werr, nfail, hkey, hval, pvars >>

NextConc ==
    \/ WriterNew
    \/ \E key \in ConcKeys, value \in Values : Put(key, value)
    \/ Drop
    \/ \E c \in Readers, key \in ConcGetKeys,
           dest \in { b \in Bufs : Len(b) = MaxBuf } : CallBegin(c, key, dest)
    \/ \E c \in Readers : CallStep(c)

SpecConc == Init /\ [][NextConc]_vars

\* C15: concurrent lookups.  get changes no byte of the data and keeps no
\* state: however the steps of several get calls over the same finalised
\* bytes interleave, every call returns what it would return run alone, and
\* the bytes stay as they were.
C15_Concurrent ==
    /\ [](\A c \in Readers :
             calls[c].pc = "done" =>
                 /\ calls[c].res = get(Data, calls[c].key, calls[c].dest0).res
                 /\ calls[c].dest = get(Data, calls[c].key, calls[c].dest0).dest)
    /\ [][Finalised => file' = file /\ pos' = pos]_vars

\* two calls for different keys are both past the first slot of their
\* probe paths
C15_Witness ==
    /\ calls["r1"].pc = "probe" /\ calls["r2"].pc = "probe"
    /\ calls["r1"].x >= 1 /\ calls["r2"].x >= 1
    /\ calls["r1"].key # calls["r2"].key

\* --------------------------------------------------- a put that fails
\* Writer::put returning Err: its seek fails, or its write_all fails after
\* w bytes of the record; the push to the index is not reached
PutFailing(key, value, step, w) ==
    /\ wstate = "open"
    /\ nfail < MaxPutFails
    /\ file' = IF step = "seek" THEN file
               ELSE WriteAt(file, pos, SubSeq(RecordBytes(key, value), 1, w))
    /\ pos' = IF step = "seek" THEN pos ELSE pos + w
    /\ nfail' = nfail + 1
    /\ UNCHANGED << index, wstate, puts, nfinal, rvars >>
    /\ UNCHANGED << damage, werr, calls, hkey, hval, pvars >>

NextPutFail ==
    \/ WriterNew
    \/ \E key \in Keys, value \in Values : Put(key, value)
    \/ \E key \in Keys, value \in Values, w \in FailWritten :
           PutFailing(key, value, "write", w)
    \/ \E key \in Keys, value \in Values : PutFailing(key, value, "seek", 0)
    \/ Drop

SpecPutFail == Init /\ [][NextPutFail]_vars

RECURSIVE Tuples(_, _)
\* the number of tuples in the lists of the buckets lo..hi-1
Tuples(lo, hi) ==
    IF hi - lo = 1 THEN Len(index[lo])
    ELSE Tuples(lo, (lo + hi) \div 2) + Tuples((lo + hi) \div 2, hi)

\* C21: pending index bookkeeping.  Right after Writer::new all 256 lists
\* are empty; a successful put appends one tuple (H, ptr) to list H mod 256
\* and a failing put appends nothing: after n successful puts the lists
\* hold n tuples in total, and every tuple of list b has hash mod 256 = b.
C21_Bookkeeping ==
    wstate = "open" =>
        /\ puts = << >> => \A b \in Buckets : index[b] = << >>
        /\ Tuples(0, MAIN_TABLE_SIZE) = Len(puts)
        /\ \A b \in Buckets :
               \A n \in 1..Len(index[b]) : table(index[b][n].hash) = b

\* C22: pool capacity.  In every state reached from Pool::new(obj_size, nmax)
\* with nmax > 0 by prealloc, take and put (put only of buffers a take handed
\* out), nused + freeq.len() <= nmax, and in particular nused <= nmax.
C22_Capacity ==
    nmax # UsizeMax =>
        /\ nused + Len(freeq) <= nmax
        /\ nused <= nmax

\* ------------------------------------- the hash and its two projections
\* the keys a Writer is given: the strings of one repeated byte
UseKeys == { k \in BytesUpTo(MaxHashLen) : \A i \in 1..Len(k) : k[i] = k[1] }

\* a key is hashed, written by a Writer and looked up by a Reader
NextHashUse ==
    \/ HashNew
    \/ WriterNew
    \/ \E key \in UseKeys : key = hkey /\ Put(key, << >>)
    \/ Drop
    \/ \E dest \in { b \in Bufs : Len(b) = MaxBuf } : Get(hkey, dest)

SpecHashUse == InitHash /\ [][NextHashUse]_vars

\* H * 32 + H mod 2^32 on the four bytes of H, least significant first
RefTimes33(H) ==
    LET t1 == 32 * H[1] + H[1]
        t2 == 32 * H[2] + H[2] + (t1 \div 256)
        t3 == 32 * H[3] + H[3] + (t2 \div 256)
        t4 == 32 * H[4] + H[4] + (t3 \div 256)
    IN << t1 % 256, t2 % 256, t3 % 256, t4 % 256 >>

RECURSIVE RefFold(_, _, _)
\* H0 = 5381, H(i+1) = ((H(i) * 32 + H(i)) mod 2^32) XOR byte(i)
RefFold(H, bytes, i) ==
    IF i > Len(bytes) THEN H
    ELSE RefFold([RefTimes33(H) EXCEPT ![1] = Xor(@, bytes[i])], bytes, i + 1)

RefHash(bytes) == RefFold(<< 5381 % 256, 5381 \div 256, 0, 0 >>, bytes, 1)

\* (H >> 8) mod n on the bytes of H
RefSlot(H, n) == (H[2] + 256 * H[3] + 65536 * H[4]) % n

\* the numbers of slots a table may have
SlotCounts == 1..(2 * (MaxPuts + 1))

\* C23: hash arithmetic.  For every byte sequence CDBHash::new is the fold
\* H0 = 5381, H(i+1) = ((H(i) * 32 + H(i)) mod 2^32) XOR byte(i), with 32-bit
\* wrap-around; the primary index is H mod 256, in 0..255, and the start slot
\* of a table of n > 0 slots is (H >> 8) mod n, in 0..n-1; Writer and Reader
\* use the same two projections with the same n: the num_ents the Reader
\* reads for a bucket is the length the Writer placed its list with, every
\* record is stored in the bucket H mod 256 of its key, and a get of a key
\* that was put finds it.
C23_HashArithmetic ==
    /\ hval.done =>
           /\ put_u32_le(hval.h) = RefHash(hkey)
           /\ table(hval.h) \in 0..255
           /\ table(hval.h) = RefHash(hkey)[1]
           /\ \A n \in SlotCounts :
                  /\ slot(hval.h, n) \in 0..(n - 1)
                  /\ slot(hval.h, n) = RefSlot(RefHash(hkey), n)
    /\ JustFinalised =>
           /\ \A b \in Buckets : PrimNum(b) = TableLength(index[b])
           /\ \A i \in PutIdx :
                  /\ SlotsOf(RefHash(puts[i].k)[1], i) # { }
                  /\ \E n \in 1..Len(index[RefHash(puts[i].k)[1]]) :
                         /\ index[RefHash(puts[i].k)[1]][n].ptr = puts[i].ptr
                         /\ put_u32_le(index[RefHash(puts[i].k)[1]][n].hash)
                                = RefHash(puts[i].k)
    /\ (GetDone /\ IsPut(rkey)) => rres.kind = "Found"

\* a key of the greatest length, whose hash passes 2^32 in the fold, has
\* been hashed, put twice and finalised
C23_Witness ==
    /\ hval.done /\ Len(hkey) = MaxHashLen /\ hkey[1] = 255
    /\ JustFinalised /\ Len(puts) = 2 /\ puts[1].k = hkey

====
